---- MODULE Spec2Model ----
(***************************************************************************)
(* Model of the billing application's root component (App): the operator  *)
(* identity, the invoice lifecycle (generate / save / view / back) and    *)
(* the product catalog (load / add / delete) kept against a remote store, *)
(* and of the invoice history (BillHistory): its fetch and its search box. *)
(* Every await of the source is a suspend point: the handler's call step  *)
(* and its completion step are separate actions, and values a closure     *)
(* captured at the call are carried in the pending request.               *)
(***************************************************************************)
EXTENDS Integers, Sequences, FiniteSets, Bags, TLC

VARIABLES
    user,            \* useState<User | null>            (App, line 19)
    loading,         \* useState(true)                   (App, line 20)
    view,            \* useState<View>('form')           (App, line 21)
    currentInvoice,  \* useState<InvoiceData | null>     (App, line 22)
    products,        \* useState<Product[]>(PRODUCTS)    (App, line 23)
    invoices,        \* BillHistory's fetched list       (BillHistory, line 13)
    searchTerm,      \* BillHistory's search box         (BillHistory, line 16)
    now,             \* the client wall clock, Date.now()
    remoteInvoices,  \* the remote 'invoices' collection, in creation order
    remoteProducts,  \* the remote 'products' collection
    nextDoc,         \* the next document id the remote store hands out
    pendingSaves,    \* addDoc calls of handleSaveInvoice in flight (a bag of requests)
    pendingAdds,     \* addDoc calls of handleAddProduct in flight
    pendingDeletes,  \* deleteDoc calls of handleDeleteProduct in flight
    loadPending,     \* the getDocs call of loadProducts is in flight
    loadSnap,        \* the snapshot the remote store has taken for that call, if any
    outcome,         \* the last handler step: its name, what it returned or alerted
    failedSave       \* the draft on screen whose save ended in 'Failed to save the invoice'

vars == <<user, loading, view, currentInvoice, products, invoices, searchTerm, now,
          remoteInvoices, remoteProducts, nextDoc, pendingSaves, pendingAdds,
          pendingDeletes, loadPending, loadSnap, outcome, failedSave>>

billingVars == <<user, loading, view, currentInvoice, invoices, searchTerm, now,
                 remoteInvoices, pendingSaves, failedSave>>

catalogVars == <<products, remoteProducts, pendingAdds, pendingDeletes, loadPending,
                 loadSnap>>

----------------------------------------------------------------------------
(* Bounds of the model *)

MaxNow == 2          \* the client clock runs 1..MaxNow
MaxInvoiceDocs == 2  \* invoice documents the remote store creates in one run
MaxProductDocs == 1  \* product documents the remote store creates in one run
MaxPendingSaves == 1 \* invoice writes in flight at a time
MaxPendingWrites == 1 \* catalog writes of one kind in flight at a time
MaxItems == 2        \* line items of a bill
MaxQty == 3          \* quantity of a line item
MaxStored == 3       \* invoice records earlier sessions left in the remote store

----------------------------------------------------------------------------
(* Values *)

Users == {"u1", "u2"}
SingleOperator == {"u1"}         \* one operator signing in and out
NoUser == "none"
NoId == 0                       \* an absent Firestore document id (id?, docId?)
NoInvoice == [none |-> TRUE]    \* currentInvoice === null
Views == {"form", "history", "products"}

\* GST_RATE of ./constants, as the fraction GST_RATE_NUM / GST_RATE_DEN.
GST_RATE_NUM == 5
GST_RATE_DEN == 100

\* PRODUCTS of ./constants: the seeded catalog, its products without docId.
PRODUCTS ==
    << [id |-> 1, name |-> "Groundnut Oil 1L", price |-> 250, docId |-> NoId],
       [id |-> 2, name |-> "Sesame Oil 500ml", price |-> 180, docId |-> NoId] >>

\* What the remote 'products' collection holds when the application starts:
\* nothing, or two documents written by an earlier session.
RemoteCatalogs ==
    { {},
      { [docId |-> -1, id |-> 3, name |-> "Castor Oil 1L", price |-> 300],
        [docId |-> -2, id |-> 1, name |-> "Groundnut Oil 1L", price |-> 250] } }

\* No snapshot of the 'products' collection has been taken for loadProducts.
NoSnapshot == [taken |-> FALSE, docs |-> {}]

Range(s) == {s[i] : i \in 1..Len(s)}

RECURSIVE SeqsUpTo(_, _)
SeqsUpTo(S, n) ==
    IF n = 0 THEN {<<>>}
    ELSE LET shorter == SeqsUpTo(S, n - 1)
         IN  shorter \cup {Append(s, x) : s \in {t \in shorter : Len(t) = n - 1}, x \in S}

\* BillItem (types, lines 12-17): a product copied by value and a quantity.
BillItems(ps, maxQty) == {[product |-> p, quantity |-> q] : p \in ps, q \in 1..maxQty}

\* The bills the billing form can hand to onGenerateBill: all of them for the
\* calculator, one for the lifecycle (which does not look into the items).
Bills == SeqsUpTo(BillItems(Range(PRODUCTS), MaxQty), MaxItems)
SmallBills == {<<[product |-> PRODUCTS[1], quantity |-> MaxQty]>>}

\* Text is a sequence of characters.
CustomerNames == {<<"A", "s", "h", "a">>}
CustomerPhones == {"98250"}

\* What the product form can hand to onAddProduct (validated: name non-empty, price > 0).
ProductNames == {"Mustard Oil 1L"}
ProductPrices == {180}

----------------------------------------------------------------------------
(* Invoice Calculator: handleGenerateBill, lines 98-100.  Amounts are kept *)
(* in fixed point, in units of 1/GST_RATE_DEN of the price unit, so that   *)
(* subtotal * GST_RATE has an exact representation.                        *)

RECURSIVE Reduce(_, _)
\* billItems.reduce((acc, item) => acc + item.product.price * item.quantity, acc0)
Reduce(billItems, acc) ==
    IF billItems = <<>> THEN acc
    ELSE Reduce(Tail(billItems), acc + Head(billItems).product.price * Head(billItems).quantity)

\* A calculator that rounds the tax to whole price units before storing it.
TotalsRounded(billItems) ==
    LET sum == Reduce(billItems, 0)
        gst == ((GST_RATE_NUM * sum + GST_RATE_DEN \div 2) \div GST_RATE_DEN) * GST_RATE_DEN
    IN  [subtotal |-> GST_RATE_DEN * sum, gstAmount |-> gst,
         grandTotal |-> GST_RATE_DEN * sum + gst]

Totals(billItems) ==
    LET sum == Reduce(billItems, 0)
        subtotal == GST_RATE_DEN * sum
        gstAmount == GST_RATE_NUM * sum          \* subtotal * GST_RATE
        grandTotal == subtotal + gstAmount
    IN  [subtotal |-> subtotal, gstAmount |-> gstAmount, grandTotal |-> grandTotal]

DigitChars == <<"0", "1", "2", "3", "4", "5", "6", "7", "8", "9">>

RECURSIVE Digits(_)
\* The decimal numeral of a natural number, as template literals print it.
Digits(n) ==
    IF n < 10 THEN <<DigitChars[n + 1]>>
    ELSE Digits(n \div 10) \o <<DigitChars[(n % 10) + 1]>>

\* An invoice number without the clock reading.
InvoiceNumberPrefixOnly(t) == <<"B", "S", "M", "O", "M", "-">>

\* `BSMOM-${Date.now()}`: the fixed prefix and the clock reading.
InvoiceNumber(t) == <<"B", "S", "M", "O", "M", "-">> \o Digits(t)

\* invoiceBaseData, lines 102-112 (no id: the draft is not persisted).
InvoiceBaseData(customerName, customerPhone, billItems, u, t) ==
    LET tot == Totals(billItems)
    IN  [invoiceNumber |-> InvoiceNumber(t), date |-> t,
         customerName |-> customerName, customerPhone |-> customerPhone,
         items |-> billItems, subtotal |-> tot.subtotal, gstAmount |-> tot.gstAmount,
         grandTotal |-> tot.grandTotal, userId |-> u, id |-> NoId]

----------------------------------------------------------------------------
(* BillHistory is rendered (and keeps its state) only while an operator is *)
(* signed in, the history view is selected and no invoice is shown         *)
(* (App, lines 160-170 and 245-253).                                       *)

HistoryMounted(u, l, v, inv) ==
    u # NoUser /\ ~l /\ v = "history" /\ inv = NoInvoice

\* The fetched list and the search box survive a step only if BillHistory
\* stays mounted.
KeepHistory(u, l, v, inv) ==
    LET stays == HistoryMounted(user, loading, view, currentInvoice)
                 /\ HistoryMounted(u, l, v, inv)
    IN  /\ invoices' = IF stays THEN invoices ELSE <<>>
        /\ searchTerm' = IF stays THEN searchTerm ELSE <<>>

\* What a handler step reports; id and docId name the product a catalog step is about.
DoneOn(op, result, id, docId) ==
    outcome' = [op |-> op, result |-> result, id |-> id, docId |-> docId]

Done(op, result) == DoneOn(op, result, 0, NoId)

\* The failure alert is about the invoice on screen: it is remembered until
\* another invoice, or none, is put on screen.
KeepFailure(inv) ==
    failedSave' = IF inv # NoInvoice /\ failedSave = [inv EXCEPT !.id = NoId]
                  THEN failedSave ELSE NoInvoice

----------------------------------------------------------------------------
\* The application after construction, whatever the remote store holds.
InitApp ==
    /\ user = NoUser
    /\ loading = TRUE
    /\ view = "form"
    /\ currentInvoice = NoInvoice
    /\ products = PRODUCTS
    /\ invoices = <<>>
    /\ searchTerm = <<>>
    /\ now = 1
    /\ pendingSaves = EmptyBag
    /\ pendingAdds = EmptyBag
    /\ pendingDeletes = EmptyBag
    /\ loadPending = TRUE
    /\ loadSnap = NoSnapshot
    /\ outcome = [op |-> "init", result |-> "ok", id |-> 0, docId |-> NoId]
    /\ failedSave = NoInvoice

Init ==
    /\ InitApp
    /\ remoteInvoices = <<>>
    /\ remoteProducts \in RemoteCatalogs
    /\ nextDoc = 1

----------------------------------------------------------------------------
(* Operator identity and the clock *)

\* A callback that records the new identity and leaves the invoice on screen.
AuthStateChangedKeepsInvoice(u) ==
    /\ loading \/ u # user
    /\ user' = u
    /\ loading' = FALSE
    /\ view' = "form"
    /\ KeepHistory(u, FALSE, "form", currentInvoice)
    /\ Done("authStateChanged", "ok")
    /\ UNCHANGED <<currentInvoice, failedSave, now, remoteInvoices, pendingSaves, nextDoc>>
    /\ UNCHANGED catalogVars

\* The onAuthStateChanged callback, lines 82-88.
AuthStateChanged(u) ==
    /\ loading \/ u # user
    /\ user' = u
    /\ loading' = FALSE
    /\ view' = "form"
    /\ currentInvoice' = NoInvoice
    /\ KeepHistory(u, FALSE, "form", NoInvoice)
    /\ Done("authStateChanged", "ok")
    /\ KeepFailure(NoInvoice)
    /\ UNCHANGED <<now, remoteInvoices, pendingSaves, nextDoc>>
    /\ UNCHANGED catalogVars

\* The wall clock advances between two handlers, or does not.
Tick ==
    /\ now < MaxNow
    /\ now' = now + 1
    /\ Done("tick", "ok")
    /\ UNCHANGED <<user, loading, view, currentInvoice, invoices, searchTerm, remoteInvoices,
                   pendingSaves, nextDoc, failedSave>>
    /\ UNCHANGED catalogVars

----------------------------------------------------------------------------
(* Invoice lifecycle *)

\* A generate that does not look at the operator identity.
handleGenerateBillUnguarded(customerName, customerPhone, billItems) ==
    /\ currentInvoice' =
          InvoiceBaseData(customerName, customerPhone, billItems, user, now)
    /\ KeepHistory(user, loading, view, currentInvoice')
    /\ Done("generateBill", "ok")
    /\ KeepFailure(currentInvoice')
    /\ UNCHANGED <<user, loading, view, now, remoteInvoices, pendingSaves, nextDoc>>
    /\ UNCHANGED catalogVars

\* handleGenerateBill, lines 93-115.
handleGenerateBill(customerName, customerPhone, billItems) ==
    /\ IF user = NoUser
       THEN /\ Done("generateBill", "Unauthorized")
            /\ UNCHANGED <<currentInvoice, invoices, searchTerm, failedSave>>
       ELSE /\ currentInvoice' =
                  InvoiceBaseData(customerName, customerPhone, billItems, user, now)
            /\ KeepHistory(user, loading, view, currentInvoice')
            /\ KeepFailure(currentInvoice')
            /\ Done("generateBill", "ok")
    /\ UNCHANGED <<user, loading, view, now, remoteInvoices, pendingSaves, nextDoc>>
    /\ UNCHANGED catalogVars

\* handleSaveInvoice up to its await, lines 118-127: the addDoc call is issued.
handleSaveInvoice(invoiceData) ==
    /\ IF user = NoUser
       THEN /\ Done("saveInvoice", "Unauthorized")
            /\ UNCHANGED pendingSaves
       ELSE /\ BagCardinality(pendingSaves) < MaxPendingSaves
            /\ pendingSaves' = pendingSaves (+) SetToBag({invoiceData})
            /\ Done("saveInvoice", "issued")
    /\ UNCHANGED <<user, loading, view, currentInvoice, invoices, searchTerm, now, remoteInvoices,
                   nextDoc, failedSave>>
    /\ UNCHANGED catalogVars

\* The record addDoc stores: { ...invoiceData, createdAt: serverTimestamp() }.
InvoiceDoc(docId, invoiceData, createdAt) ==
    [docId |-> docId, data |-> invoiceData, createdAt |-> createdAt]

\* handleSaveInvoice after the await resolved, lines 128-129.
SaveInvoiceOk(req) ==
    /\ BagIn(req, pendingSaves)
    /\ nextDoc <= MaxInvoiceDocs
    /\ remoteInvoices' = Append(remoteInvoices,
                                InvoiceDoc(nextDoc, req, Len(remoteInvoices) + 1))
    /\ nextDoc' = nextDoc + 1
    /\ currentInvoice' = [req EXCEPT !.id = nextDoc]
    /\ pendingSaves' = pendingSaves (-) SetToBag({req})
    /\ KeepHistory(user, loading, view, currentInvoice')
    /\ Done("saveInvoice", "true")
    /\ KeepFailure(currentInvoice')
    /\ UNCHANGED <<user, loading, view, now>>
    /\ UNCHANGED catalogVars

\* A failed save that drops the draft.
SaveInvoiceFailedDropsDraft(req) ==
    /\ BagIn(req, pendingSaves)
    /\ pendingSaves' = pendingSaves (-) SetToBag({req})
    /\ failedSave' = NoInvoice
    /\ currentInvoice' = NoInvoice
    /\ KeepHistory(user, loading, view, NoInvoice)
    /\ Done("saveInvoice", "false")
    /\ UNCHANGED <<user, loading, view, now, remoteInvoices, nextDoc>>
    /\ UNCHANGED catalogVars

\* handleSaveInvoice after the await rejected, lines 130-134.
SaveInvoiceFailed(req) ==
    /\ BagIn(req, pendingSaves)
    /\ pendingSaves' = pendingSaves (-) SetToBag({req})
    /\ failedSave' = IF req.id = NoId /\ req = currentInvoice
                      THEN req ELSE failedSave
    /\ Done("saveInvoice", "false")
    /\ UNCHANGED <<user, loading, view, currentInvoice, invoices, searchTerm, now, remoteInvoices,
                   nextDoc>>
    /\ UNCHANGED catalogVars

\* A view that recomputes the totals of the recalled invoice, rounding the tax.
handleViewInvoiceRecomputed(invoice) ==
    /\ currentInvoice' = [invoice EXCEPT !.subtotal = TotalsRounded(invoice.items).subtotal,
                                         !.gstAmount = TotalsRounded(invoice.items).gstAmount,
                                         !.grandTotal = TotalsRounded(invoice.items).grandTotal]
    /\ KeepHistory(user, loading, view, invoice)
    /\ Done("viewInvoice", "ok")
    /\ KeepFailure(currentInvoice')
    /\ UNCHANGED <<user, loading, view, now, remoteInvoices, pendingSaves, nextDoc>>
    /\ UNCHANGED catalogVars

\* handleViewInvoice, lines 147-149, on a row of the fetched history.
handleViewInvoice(invoice) ==
    /\ currentInvoice' = invoice
    /\ KeepHistory(user, loading, view, invoice)
    /\ Done("viewInvoice", "ok")
    /\ KeepFailure(invoice)
    /\ UNCHANGED <<user, loading, view, now, remoteInvoices, pendingSaves, nextDoc>>
    /\ UNCHANGED catalogVars

\* handleBack, lines 151-153.
handleBack ==
    /\ currentInvoice' = NoInvoice
    /\ KeepHistory(user, loading, view, NoInvoice)
    /\ Done("back", "ok")
    /\ KeepFailure(NoInvoice)
    /\ UNCHANGED <<user, loading, view, now, remoteInvoices, pendingSaves, nextDoc>>
    /\ UNCHANGED catalogVars

\* switchView, lines 155-158.
switchView(newView) ==
    /\ view' = newView
    /\ currentInvoice' = NoInvoice
    /\ KeepHistory(user, loading, newView, NoInvoice)
    /\ Done("switchView", "ok")
    /\ KeepFailure(NoInvoice)
    /\ UNCHANGED <<user, loading, now, remoteInvoices, pendingSaves, nextDoc>>
    /\ UNCHANGED catalogVars

----------------------------------------------------------------------------
(* Invoice history: fetchInvoices of BillHistory, lines 19-43 *)

RECURSIVE InsertDesc(_, _)
\* Insert a document into a list ordered by createdAt descending.
InsertDesc(d, s) ==
    IF s = <<>> THEN <<d>>
    ELSE IF d.createdAt >= Head(s).createdAt THEN <<d>> \o s
    ELSE <<Head(s)>> \o InsertDesc(d, Tail(s))

RECURSIVE OrderByCreatedAtDesc(_)
OrderByCreatedAtDesc(s) ==
    IF s = <<>> THEN <<>> ELSE InsertDesc(Head(s), OrderByCreatedAtDesc(Tail(s)))

\* A query without the where clause: every operator's invoices.
QueryInvoicesEveryone(uid) ==
    OrderByCreatedAtDesc(remoteInvoices)

\* query(collection, where('userId', '==', uid), orderBy('createdAt', 'desc'))
QueryInvoices(uid) ==
    OrderByCreatedAtDesc(SelectSeq(remoteInvoices, LAMBDA d : d.data.userId = uid))

\* { id: doc.id, ...data, date: data.createdAt.toDate() }: a stored id field
\* of data overrides doc.id, the date is the server's creation time.
InvoiceOfDoc(d) ==
    [d.data EXCEPT !.id = IF d.data.id # NoId THEN d.data.id ELSE d.docId,
                   !.date = d.createdAt]

MapDocs(s) == [i \in 1..Len(s) |-> InvoiceOfDoc(s[i])]

FetchInvoicesOk ==
    /\ HistoryMounted(user, loading, view, currentInvoice)
    /\ invoices' = MapDocs(QueryInvoices(user))
    /\ Done("fetchInvoices", "ok")
    /\ UNCHANGED <<searchTerm, user, loading, view, currentInvoice, now, remoteInvoices,
                   pendingSaves, nextDoc, failedSave>>
    /\ UNCHANGED catalogVars

FetchInvoicesFailed ==
    /\ HistoryMounted(user, loading, view, currentInvoice)
    /\ Done("fetchInvoices", "FetchError")
    /\ UNCHANGED <<user, loading, view, currentInvoice, invoices, searchTerm, now, remoteInvoices,
                   pendingSaves, nextDoc, failedSave>>
    /\ UNCHANGED catalogVars

\* String.prototype.toLowerCase, on the letters the model's texts use.
LowerChar(c) ==
    CASE c = "A" -> "a" [] c = "B" -> "b" [] c = "M" -> "m"
      [] c = "O" -> "o" [] c = "S" -> "s" [] OTHER -> c

ToLowerCase(s) == [i \in 1..Len(s) |-> LowerChar(s[i])]

\* String.prototype.includes: t occurs in s as a contiguous, case-sensitive part.
Includes(s, t) ==
    \E i \in 0..(Len(s) - Len(t)) : SubSeq(s, i + 1, i + Len(t)) = t

\* Date.prototype.toLocaleDateString('en-IN'): day/month/year.  The clock of
\* the model counts the days of November 2026.
FormatDate(d) == Digits(d) \o <<"/", "1", "1", "/", "2", "0", "2", "6">>

\* A filter that looks at the customer name only.
filteredInvoicesByName(invs, term) ==
    SelectSeq(invs, LAMBDA invoice :
        Includes(ToLowerCase(invoice.customerName), ToLowerCase(term)))

\* filteredInvoices, BillHistory lines 57-61.
filteredInvoices(invs, term) ==
    SelectSeq(invs, LAMBDA invoice :
        \/ Includes(ToLowerCase(invoice.invoiceNumber), ToLowerCase(term))
        \/ Includes(ToLowerCase(invoice.customerName), ToLowerCase(term))
        \/ Includes(FormatDate(invoice.date), term))

\* What the operator types into the search box.
SearchTerms == {<<>>, <<"2">>, <<"-", "2">>}

\* The search box's onChange, BillHistory line 72.
setSearchTerm(term) ==
    /\ HistoryMounted(user, loading, view, currentInvoice)
    /\ searchTerm' = term
    /\ Done("search", "ok")
    /\ UNCHANGED <<user, loading, view, currentInvoice, invoices, now, remoteInvoices,
                   pendingSaves, nextDoc, failedSave>>
    /\ UNCHANGED catalogVars

----------------------------------------------------------------------------
(* Product catalog: loadProducts, handleAddProduct, handleDeleteProduct *)

RECURSIVE InsertById(_, _)
\* Insert a document into a list ordered by id ascending (equal ids: by document key).
InsertById(d, s) ==
    IF s = <<>> THEN <<d>>
    ELSE IF d.id < Head(s).id \/ (d.id = Head(s).id /\ d.docId < Head(s).docId)
         THEN <<d>> \o s
         ELSE <<Head(s)>> \o InsertById(d, Tail(s))

RECURSIVE OrderById(_)
\* query(productsRef, orderBy('id', 'asc')) over a set of documents.
OrderById(docs) ==
    IF docs = {} THEN <<>>
    ELSE LET d == CHOOSE x \in docs : TRUE
         IN  InsertById(d, OrderById(docs \ {d}))

\* snap.docs.map(d => ({ id, name, price, docId: d.id })), lines 33-38.
Loaded(docs) ==
    LET s == OrderById(docs)
    IN  [i \in 1..Len(s) |->
            [id |-> s[i].id, name |-> s[i].name, price |-> s[i].price, docId |-> s[i].docId]]

\* The working catalog after getDocs resolved, lines 32-40: an empty snapshot
\* leaves the state as it is.
AfterLoad(docs, current) == IF docs # {} THEN Loaded(docs) ELSE current

\* The remote store evaluates the query of getDocs (line 31) at some moment
\* between the call and its completion: the snapshot is the collection then.
LoadProductsServed ==
    /\ loadPending
    /\ ~loadSnap.taken
    /\ loadSnap' = [taken |-> TRUE, docs |-> remoteProducts]
    /\ Done("getDocs", "served")
    /\ UNCHANGED <<products, remoteProducts, pendingAdds, pendingDeletes, loadPending,
                   nextDoc>>
    /\ UNCHANGED billingVars

\* loadProducts, getDocs resolved, lines 31-40.
LoadProductsOk ==
    /\ loadPending
    /\ loadSnap.taken
    /\ loadPending' = FALSE
    /\ loadSnap' = NoSnapshot
    /\ products' = AfterLoad(loadSnap.docs, products)
    /\ Done("loadProducts", IF loadSnap.docs # {} THEN "loaded" ELSE "empty")
    /\ UNCHANGED <<remoteProducts, pendingAdds, pendingDeletes, nextDoc>>
    /\ UNCHANGED billingVars

\* loadProducts, getDocs rejected, lines 41-44.
LoadProductsFailed ==
    /\ loadPending
    /\ loadPending' = FALSE
    /\ loadSnap' = NoSnapshot
    /\ products' = PRODUCTS
    /\ Done("loadProducts", "failed")
    /\ UNCHANGED <<remoteProducts, pendingAdds, pendingDeletes, nextDoc>>
    /\ UNCHANGED billingVars

RECURSIVE MaxId(_)
\* products.reduce((m, p) => Math.max(m, p.id), 0), line 51.
MaxId(ps) ==
    IF ps = <<>> THEN 0
    ELSE LET m == MaxId(Tail(ps)) IN IF Head(ps).id > m THEN Head(ps).id ELSE m

\* handleAddProduct up to its await, lines 49-54: nextId is computed from the
\* products of the render the handler was created in, then addDoc is issued.
handleAddProduct(name, price) ==
    /\ BagCardinality(pendingAdds) < MaxPendingWrites
    /\ pendingAdds' = pendingAdds (+)
          SetToBag({[id |-> MaxId(products) + 1, name |-> name, price |-> price]})
    /\ DoneOn("addProduct", "issued", MaxId(products) + 1, NoId)
    /\ UNCHANGED <<products, remoteProducts, pendingDeletes, loadPending, loadSnap, nextDoc>>
    /\ UNCHANGED billingVars

\* newProd, line 55.
NewProd(req, docId) ==
    [id |-> req.id, name |-> req.name, price |-> req.price, docId |-> docId]

\* handleAddProduct after addDoc resolved, lines 55-56.
AddProductOk(req) ==
    /\ BagIn(req, pendingAdds)
    /\ nextDoc <= MaxProductDocs
    /\ remoteProducts' = remoteProducts \cup
          {[docId |-> nextDoc, id |-> req.id, name |-> req.name,
            price |-> req.price]}
    /\ nextDoc' = nextDoc + 1
    /\ products' = Append(products, NewProd(req, nextDoc))
    /\ pendingAdds' = pendingAdds (-) SetToBag({req})
    /\ DoneOn("addProduct", "added", req.id, nextDoc)
    /\ UNCHANGED <<pendingDeletes, loadPending, loadSnap>>
    /\ UNCHANGED billingVars

\* An add that inserts the product although the remote write was rejected.
AddFailureOptimistic(req, current) == Append(current, NewProd(req, NoId))

\* The working catalog after addDoc rejected, lines 57-60: no setProducts.
AddFailure(req, current) == current

\* handleAddProduct after addDoc rejected, lines 57-60.
AddProductFailed(req) ==
    /\ BagIn(req, pendingAdds)
    /\ products' = AddFailure(req, products)
    /\ pendingAdds' = pendingAdds (-) SetToBag({req})
    /\ DoneOn("addProduct", "failed", req.id, NoId)
    /\ UNCHANGED <<remoteProducts, pendingDeletes, loadPending, loadSnap, nextDoc>>
    /\ UNCHANGED billingVars

\* prev.filter(p => p.id !== id), line 78.
WithoutId(ps, id) == SelectSeq(ps, LAMBDA p : p.id # id)

\* products.find(p => p.id === id && p.docId), line 68: its docId, or none.
FindDocId(ps, id) ==
    LET hits == SelectSeq(ps, LAMBDA p : p.id = id /\ p.docId # NoId)
    IN  IF hits = <<>> THEN NoId ELSE Head(hits).docId

\* The document handleDeleteProduct deletes remotely, lines 65-72, or none.
DeleteTarget(ps, id, docId) == IF docId # NoId THEN docId ELSE FindDocId(ps, id)

\* A delete that removes the product before the remote deletion has answered.
DeleteCallEager(id, docId) ==
    /\ BagCardinality(pendingDeletes) < MaxPendingWrites
    /\ pendingDeletes' = pendingDeletes (+)
          SetToBag({[id |-> id, docId |-> DeleteTarget(products, id, docId)]})
    /\ products' = WithoutId(products, id)
    /\ DoneOn("deleteProduct", "issued", id, DeleteTarget(products, id, docId))

\* handleDeleteProduct up to its await, lines 63-72; with no document to
\* delete there is no await and line 78 runs in the same step.
DeleteCall(id, docId) ==
    IF DeleteTarget(products, id, docId) # NoId
    THEN /\ BagCardinality(pendingDeletes) < MaxPendingWrites
         /\ pendingDeletes' = pendingDeletes (+)
               SetToBag({[id |-> id, docId |-> DeleteTarget(products, id, docId)]})
         /\ products' = products
         /\ DoneOn("deleteProduct", "issued", id, DeleteTarget(products, id, docId))
    ELSE /\ pendingDeletes' = pendingDeletes
         /\ products' = WithoutId(products, id)
         /\ DoneOn("deleteProduct", "removed", id, NoId)

handleDeleteProduct(id, docId) ==
    /\ DeleteCall(id, docId)
    /\ UNCHANGED <<remoteProducts, pendingAdds, loadPending, loadSnap, nextDoc>>
    /\ UNCHANGED billingVars

\* handleDeleteProduct after deleteDoc resolved, line 78.
DeleteProductOk(req) ==
    /\ BagIn(req, pendingDeletes)
    /\ remoteProducts' = {d \in remoteProducts : d.docId # req.docId}
    /\ products' = WithoutId(products, req.id)
    /\ pendingDeletes' = pendingDeletes (-) SetToBag({req})
    /\ DoneOn("deleteProduct", "removed", req.id, req.docId)
    /\ UNCHANGED <<pendingAdds, loadPending, loadSnap, nextDoc>>
    /\ UNCHANGED billingVars

\* handleDeleteProduct after deleteDoc rejected, lines 73-77.
DeleteProductFailed(req) ==
    /\ BagIn(req, pendingDeletes)
    /\ pendingDeletes' = pendingDeletes (-) SetToBag({req})
    /\ DoneOn("deleteProduct", "failed", req.id, req.docId)
    /\ UNCHANGED <<products, remoteProducts, pendingAdds, loadPending, loadSnap, nextDoc>>
    /\ UNCHANGED billingVars

----------------------------------------------------------------------------
(* Specifications *)

\* The billing specifications start with an empty remote catalog: no billing
\* handler reads or writes the 'products' collection.
InitBilling == Init /\ remoteProducts = {}

\* Sign-in and sign-out notifications for the operators us, and the clock.
Identity(us) ==
    \/ \E u \in us \cup {NoUser} : AuthStateChanged(u)
    \/ Tick

\* The calculator under every bill of the bounds.
NextTotals ==
    \/ Identity(Users)
    \/ \E n \in CustomerNames, p \in CustomerPhones, b \in Bills :
          handleGenerateBill(n, p, b)
    \/ handleBack

SpecTotals == InitBilling /\ [][NextTotals]_vars

\* The invoice lifecycle of a single operator against the remote store.
NextBilling ==
    \/ Identity(SingleOperator)
    \/ \E n \in CustomerNames, p \in CustomerPhones, b \in SmallBills :
          handleGenerateBill(n, p, b)
    \/ currentInvoice # NoInvoice /\ handleSaveInvoice(currentInvoice)
    \/ \E req \in BagToSet(pendingSaves) : SaveInvoiceOk(req)
    \/ \E req \in BagToSet(pendingSaves) : SaveInvoiceFailed(req)
    \/ \E i \in 1..Len(invoices) : handleViewInvoice(invoices[i])
    \/ handleBack
    \/ \E v \in Views : switchView(v)
    \/ FetchInvoicesOk
    \/ FetchInvoicesFailed

SpecBilling == InitBilling /\ [][NextBilling]_vars

\* The invoice lifecycle with two operators taking turns on the device.
NextHandover ==
    \/ Identity(Users)
    \/ \E n \in CustomerNames, p \in CustomerPhones, b \in SmallBills :
          handleGenerateBill(n, p, b)
    \/ currentInvoice # NoInvoice /\ handleSaveInvoice(currentInvoice)
    \/ \E req \in BagToSet(pendingSaves) : SaveInvoiceOk(req)
    \/ \E req \in BagToSet(pendingSaves) : SaveInvoiceFailed(req)
    \/ \E i \in 1..Len(invoices) : handleViewInvoice(invoices[i])
    \/ handleBack
    \/ \E v \in Views : switchView(v)
    \/ FetchInvoicesOk
    \/ FetchInvoicesFailed

SpecHandover == InitBilling /\ [][NextHandover]_vars

\* The records earlier sessions of either operator left in the remote store,
\* in creation order: any owner, any client date, the server's creation times
\* increasing.
StoredDocs(k) ==
    {InvoiceDoc(k, InvoiceBaseData(n, p, b, u, t), k) :
        n \in CustomerNames, p \in CustomerPhones, b \in SmallBills,
        u \in Users, t \in 1..MaxNow}

StoredInvoices ==
    UNION {{s \in [1..n -> UNION {StoredDocs(k) : k \in 1..n}] :
               \A k \in 1..n : s[k].docId = k} : n \in 0..MaxStored}

InitHistory ==
    /\ InitApp
    /\ remoteInvoices \in StoredInvoices
    /\ remoteProducts = {}
    /\ nextDoc = Len(remoteInvoices) + 1

\* The invoice history over every content of the store: operators sign in
\* and out, open the history, search it and look at its rows.
NextHistory ==
    \/ \E u \in Users \cup {NoUser} : AuthStateChanged(u)
    \/ \E v \in Views : switchView(v)
    \/ FetchInvoicesOk
    \/ FetchInvoicesFailed
    \/ \E term \in SearchTerms : setSearchTerm(term)
    \/ \E i \in 1..Len(filteredInvoices(invoices, searchTerm)) :
          handleViewInvoice(filteredInvoices(invoices, searchTerm)[i])
    \/ handleBack

SpecHistory == InitHistory /\ [][NextHistory]_vars

\* The product catalog against the remote store.  ProductManager passes the
\* id and docId of the row whose delete button was pressed.
NextCatalog ==
    \/ LoadProductsServed
    \/ LoadProductsOk
    \/ LoadProductsFailed
    \/ \E n \in ProductNames, p \in ProductPrices : handleAddProduct(n, p)
    \/ \E req \in BagToSet(pendingAdds) : AddProductOk(req)
    \/ \E req \in BagToSet(pendingAdds) : AddProductFailed(req)
    \/ \E k \in 1..Len(products) : handleDeleteProduct(products[k].id, products[k].docId)
    \/ \E req \in BagToSet(pendingDeletes) : DeleteProductOk(req)
    \/ \E req \in BagToSet(pendingDeletes) : DeleteProductFailed(req)

SpecCatalog == Init /\ [][NextCatalog]_vars

----------------------------------------------------------------------------
(* Properties of the invoice lifecycle *)

RECURSIVE SumOfLines(_)
\* The sum over the line items of product.price * quantity.
SumOfLines(items) ==
    IF items = <<>> THEN 0
    ELSE SumOfLines(SubSeq(items, 1, Len(items) - 1))
         + items[Len(items)].product.price * items[Len(items)].quantity

\* C1: the stored draft has subtotal = sum of price * quantity over its items,
\* gstAmount = subtotal * GST_RATE and grandTotal = subtotal + gstAmount, with
\* no rounding (stored amounts are in units of 1/GST_RATE_DEN).
C1_TotalsExact ==
    currentInvoice # NoInvoice =>
        /\ currentInvoice.subtotal = GST_RATE_DEN * SumOfLines(currentInvoice.items)
        /\ currentInvoice.gstAmount * GST_RATE_DEN = currentInvoice.subtotal * GST_RATE_NUM
        /\ currentInvoice.grandTotal = currentInvoice.subtotal + currentInvoice.gstAmount

\* One item of price 250, quantity 3, rate 0.05: 750 / 37.5 / 787.5.
C1_Witness ==
    /\ currentInvoice # NoInvoice
    /\ currentInvoice.items = <<[product |-> PRODUCTS[1], quantity |-> 3]>>
    /\ currentInvoice.subtotal = 750 * GST_RATE_DEN
    /\ currentInvoice.gstAmount * 2 = 75 * GST_RATE_DEN
    /\ currentInvoice.grandTotal * 2 = 1575 * GST_RATE_DEN

\* C2: a generate step taken while no operator is signed in reports
\* Unauthorized and changes neither the current invoice and view nor the remote
\* store nor the set of remote calls in flight.
C2_GenerateUnauthorized ==
    [][(outcome'.op = "generateBill" /\ user = NoUser) =>
          /\ outcome'.result = "Unauthorized"
          /\ UNCHANGED <<user, view, currentInvoice, invoices, searchTerm, remoteInvoices,
                         remoteProducts, nextDoc, pendingSaves, pendingAdds,
                         pendingDeletes, products>>]_vars

\* Generate was refused while an invoice was on screen, and the invoice is still there.
C2_Witness ==
    /\ outcome.op = "generateBill"
    /\ outcome.result = "Unauthorized"
    /\ user = NoUser
    /\ currentInvoice # NoInvoice

\* C3: a save whose remote write fails (the request ends and the store is
\* as before) leaves the current invoice as it was and returns false; a save
\* whose write succeeds stores the given invoice under a fresh id and makes the
\* current invoice that invoice with the id attached.
C3_SaveFailureKeepsDraft ==
    [][BagCardinality(pendingSaves') < BagCardinality(pendingSaves) =>
          IF remoteInvoices' = remoteInvoices
          THEN /\ currentInvoice' = currentInvoice
               /\ outcome'.op = "saveInvoice" /\ outcome'.result = "false"
          ELSE /\ Len(remoteInvoices') = Len(remoteInvoices) + 1
               /\ \E req \in BagToSet(pendingSaves) :
                     LET doc == remoteInvoices'[Len(remoteInvoices')]
                     IN  /\ doc.data = req
                         /\ doc.docId # NoId
                         /\ \A k \in 1..Len(remoteInvoices) :
                                remoteInvoices[k].docId # doc.docId
                         /\ currentInvoice' = [req EXCEPT !.id = doc.docId]
               /\ outcome'.op = "saveInvoice" /\ outcome'.result = "true"]_vars

\* A draft whose save had failed was saved again and is now persisted.
C3_Witness ==
    /\ outcome.op = "saveInvoice" /\ outcome.result = "true"
    /\ failedSave # NoInvoice
    /\ failedSave.id = NoId
    /\ currentInvoice # NoInvoice
    /\ currentInvoice.id # NoId
    /\ currentInvoice = [failedSave EXCEPT !.id = currentInvoice.id]

\* C11: a step that changes the operator identity (sign-in, sign-out) leaves
\* no current invoice and the billing form selected, whatever was on screen.
C11_IdentityChangeResets ==
    [][user' # user => (currentInvoice' = NoInvoice /\ view' = "form")]_vars

\* The operator signed out with a record stored and another save in flight.
C11_Witness ==
    /\ outcome.op = "authStateChanged"
    /\ user = NoUser
    /\ currentInvoice = NoInvoice
    /\ view = "form"
    /\ remoteInvoices # <<>>
    /\ pendingSaves # EmptyBag

\* C12: discard (back, switchView) leaves no current invoice and issues no
\* remote call, and the step after it puts an invoice on screen only if it
\* is generate or view.
C12_DiscardStays ==
    [][/\ outcome'.op \in {"back", "switchView"} =>
             /\ currentInvoice' = NoInvoice
             /\ UNCHANGED <<remoteInvoices, remoteProducts, nextDoc, pendingSaves,
                            pendingAdds, pendingDeletes>>
       /\ (outcome.op \in {"back", "switchView"} /\ currentInvoice' # NoInvoice) =>
             outcome'.op \in {"generateBill", "viewInvoice"}]_vars

OwnedBy(uid) == {k \in 1..Len(remoteInvoices) : remoteInvoices[k].data.userId = uid}

\* The invoice listed for a stored record: the record's fields, dated by the server.
ListedFor(inv, d) ==
    /\ inv.invoiceNumber = d.data.invoiceNumber
    /\ inv.items = d.data.items
    /\ inv.subtotal = d.data.subtotal
    /\ inv.gstAmount = d.data.gstAmount
    /\ inv.grandTotal = d.data.grandTotal
    /\ inv.customerName = d.data.customerName
    /\ inv.customerPhone = d.data.customerPhone
    /\ inv.userId = d.data.userId
    /\ inv.date = d.createdAt

\* C13: a successful fetch for the signed-in operator lists exactly the stored
\* invoices whose userId is that operator, newest creation time first, each
\* dated with the server's creation time.
C13_ListOwnedNewestFirst ==
    [][(outcome'.op = "fetchInvoices" /\ outcome'.result = "ok") =>
          /\ Len(invoices') = Cardinality(OwnedBy(user))
          /\ \A k \in OwnedBy(user) :
                \E j \in 1..Len(invoices') : ListedFor(invoices'[j], remoteInvoices[k])
          /\ \A j \in 1..Len(invoices') :
                \E k \in OwnedBy(user) : ListedFor(invoices'[j], remoteInvoices[k])
          /\ \A j \in 1..(Len(invoices') - 1) :
                invoices'[j].date >= invoices'[j + 1].date]_vars

\* Two invoices of the operator listed newest first, next to another
\* operator's record, and one of them dated differently by the client.
C13_Witness ==
    /\ outcome.op = "fetchInvoices" /\ outcome.result = "ok"
    /\ Len(invoices) = 2
    /\ Len(remoteInvoices) = 3
    /\ invoices[1].date > invoices[2].date
    /\ \E k \in OwnedBy(user) :
          /\ remoteInvoices[k].data.date # remoteInvoices[k].createdAt
          /\ invoices[1].date = remoteInvoices[k].createdAt

\* The fetched invoices whose invoiceNumber contains the search box's text.
NumberHits == {j \in 1..Len(invoices) : Includes(invoices[j].invoiceNumber, searchTerm)}

NameOrDateHit(inv) ==
    \/ Includes(ToLowerCase(inv.customerName), ToLowerCase(searchTerm))
    \/ Includes(FormatDate(inv.date), searchTerm)

\* C14: when the search text occurs in the invoiceNumber of exactly one
\* fetched invoice, the filtered list is exactly that invoice.
C14_FilterIsolatesNumber ==
    \A j \in NumberHits :
        NumberHits = {j} => filteredInvoices(invoices, searchTerm) = <<invoices[j]>>

\* C14 (amended): when the search text occurs in the invoiceNumber of exactly
\* one fetched invoice, the filtered list contains that invoice, every other
\* invoice in it has the text in its customer name or its formatted date, and
\* with no such other invoice the list is exactly that invoice.
C14_FilterKeepsNumberHit ==
    \A j \in NumberHits :
        NumberHits = {j} =>
            LET shown == filteredInvoices(invoices, searchTerm)
            IN  /\ invoices[j] \in Range(shown)
                /\ \A x \in Range(shown) : x = invoices[j] \/ NameOrDateHit(x)
                /\ (\A i \in 1..Len(invoices) : i = j \/ ~NameOrDateHit(invoices[i]))
                      => shown = <<invoices[j]>>

\* Two invoices fetched, the search text in the number of one and in nothing
\* of the other: the list shows that one.
C14_Witness ==
    /\ Len(invoices) = 2
    /\ searchTerm # <<>>
    /\ Cardinality(NumberHits) = 1
    /\ Len(filteredInvoices(invoices, searchTerm)) = 1

\* C15: no two distinct records of the remote store carry the same
\* invoiceNumber.
C15_NumbersUnique ==
    \A i, j \in 1..Len(remoteInvoices) :
        i # j => remoteInvoices[i].data.invoiceNumber # remoteInvoices[j].data.invoiceNumber

\* C15 (amended): two records created by saving drafts carry the same
\* invoiceNumber only if the drafts were generated at the same clock reading
\* (one draft saved twice included); a record created by saving a persisted
\* invoice again carries the invoiceNumber of that invoice's record.
C15_SameNumberSameReading ==
    /\ \A i, j \in 1..Len(remoteInvoices) :
          (/\ remoteInvoices[i].data.id = NoId
           /\ remoteInvoices[j].data.id = NoId
           /\ remoteInvoices[i].data.invoiceNumber = remoteInvoices[j].data.invoiceNumber)
              => remoteInvoices[i].data.date = remoteInvoices[j].data.date
    /\ \A i \in 1..Len(remoteInvoices) :
          remoteInvoices[i].data.id # NoId =>
              \E j \in 1..Len(remoteInvoices) :
                  /\ remoteInvoices[j].docId = remoteInvoices[i].data.id
                  /\ remoteInvoices[j].data.invoiceNumber = remoteInvoices[i].data.invoiceNumber

\* Two drafts generated without the clock advancing, both saved: two records
\* with one number.
C15_Witness ==
    /\ Len(remoteInvoices) = 2
    /\ remoteInvoices[1].data.id = NoId
    /\ remoteInvoices[2].data.id = NoId
    /\ remoteInvoices[1].data.invoiceNumber = remoteInvoices[2].data.invoiceNumber

\* C16: an invoice is held only while an operator is signed in, and it is
\* that operator's.
C16_InvoiceOfCurrentOperator ==
    currentInvoice # NoInvoice =>
        (user # NoUser /\ currentInvoice.userId = user)

\* C9: every record created in the remote 'invoices' collection is a draft's,
\* that is, the invoice written carries no persisted id.
C9_OnlyDraftsAreWritten ==
    [][Len(remoteInvoices') > Len(remoteInvoices) =>
          remoteInvoices'[Len(remoteInvoices')].data.id = NoId]_vars

FieldsAgree(a, b) ==
    /\ a.invoiceNumber = b.invoiceNumber
    /\ a.items = b.items
    /\ a.subtotal = b.subtotal
    /\ a.gstAmount = b.gstAmount
    /\ a.grandTotal = b.grandTotal

\* An in-memory invoice with a persisted id agrees with the stored record of that id.
MatchesStore(inv) ==
    inv.id # NoId =>
        \E k \in 1..Len(remoteInvoices) :
            /\ remoteInvoices[k].docId = inv.id
            /\ FieldsAgree(inv, remoteInvoices[k].data)

InMemoryMatchesStore ==
    /\ currentInvoice # NoInvoice => MatchesStore(currentInvoice)
    /\ \A j \in 1..Len(invoices) : MatchesStore(invoices[j])

\* C10: stored invoice records never change, every in-memory invoice with a
\* persisted id (the current invoice, a row of the fetched history) carries the
\* invoiceNumber, items, subtotal, gstAmount and grandTotal of the stored record
\* of that id, and no step changes these fields of a persisted current invoice.
C10_PersistedImmutable ==
    [][/\ \A k \in 1..Len(remoteInvoices) :
             Len(remoteInvoices') >= k /\ remoteInvoices'[k] = remoteInvoices[k]
       /\ InMemoryMatchesStore'
       /\ (/\ currentInvoice # NoInvoice
           /\ currentInvoice' # NoInvoice
           /\ currentInvoice.id # NoId
           /\ currentInvoice'.id = currentInvoice.id)
          => FieldsAgree(currentInvoice, currentInvoice')]_vars

\* A persisted invoice was recalled from the history.
C10_Witness ==
    /\ outcome.op = "viewInvoice"
    /\ currentInvoice # NoInvoice
    /\ currentInvoice.id # NoId
    /\ currentInvoice.subtotal > 0

----------------------------------------------------------------------------
(* Properties of the product catalog *)

\* C4 as stated: a delete step removes a product from the working catalog
\* only when the remote deletion of that product's document has confirmed.
C4_RemoteFirstForEveryProduct ==
    [][\A k \in 1..Len(products) :
          (outcome'.op = "deleteProduct" /\ products[k] \notin Range(products')) =>
              /\ products[k].docId # NoId
              /\ outcome'.result = "removed"
              /\ outcome'.docId = products[k].docId]_vars

\* C4 amended: a delete step changes the working catalog only by removing the
\* products of the given id, and only (a) when the remote deletion it had
\* issued confirms, or (b) at once and with no remote call when no docId was
\* given and no product of that id carries one; issuing the remote deletion and
\* its failure leave the working catalog unchanged.
C4_RemoteFirstWhenRef ==
    [][outcome'.op = "deleteProduct" =>
          /\ outcome'.result \in {"issued", "failed"} => products' = products
          /\ \A k \in 1..Len(products) :
                products[k] \notin Range(products') => products[k].id = outcome'.id
          /\ products' # products =>
                /\ outcome'.result = "removed"
                /\ IF outcome'.docId # NoId
                   THEN /\ \E req \in BagToSet(pendingDeletes) :
                              /\ req.docId = outcome'.docId
                              /\ req.id = outcome'.id
                        /\ BagCardinality(pendingDeletes') = BagCardinality(pendingDeletes) - 1
                        /\ \A d \in remoteProducts' : d.docId # outcome'.docId
                   ELSE /\ \A k \in 1..Len(products) :
                              products[k].id = outcome'.id => products[k].docId = NoId
                        /\ UNCHANGED <<remoteProducts, pendingDeletes>>]_vars

\* A product with a remote document was removed after its remote deletion confirmed.
C4_Witness ==
    /\ outcome.op = "deleteProduct"
    /\ outcome.result = "removed"
    /\ outcome.docId # NoId
    /\ \A k \in 1..Len(products) : products[k].id # outcome.id
    /\ \A d \in remoteProducts : d.docId # outcome.docId

\* C5: no two products of the working catalog have the same id.
C5_UniqueIds ==
    \A i, j \in 1..Len(products) : i # j => products[i].id # products[j].id

\* C6: an add whose remote write fails (the request ends and the remote
\* collection is as before) leaves the working catalog as it was and reports
\* the failure.
C6_AddFailureKeepsCatalog ==
    [][(BagCardinality(pendingAdds') < BagCardinality(pendingAdds) /\ remoteProducts' = remoteProducts) =>
          /\ products' = products
          /\ outcome'.op = "addProduct" /\ outcome'.result = "failed"]_vars

\* An add failed while the working catalog already held an added product.
C6_Witness ==
    /\ outcome.op = "addProduct"
    /\ outcome.result = "failed"
    /\ \E k \in 1..Len(products) : products[k].docId > 0

\* C7: a successful add appends exactly one product, carrying the new
\* document's id, whose id is 1 + the maximum id of the working catalog it is
\* appended to.
C7_AddedIdIsMaxPlusOne ==
    [][(outcome'.op = "addProduct" /\ outcome'.result = "added") =>
          /\ Len(products') = Len(products) + 1
          /\ SubSeq(products', 1, Len(products)) = products
          /\ products'[Len(products')].docId = outcome'.docId
          /\ outcome'.docId # NoId
          /\ products'[Len(products')].id = 1 + MaxId(products)]_vars

\* C8: a load that succeeds with a non-empty result makes the working catalog
\* that result in ascending id order; a load that fails or returns an empty
\* result makes it the built-in default list.
C8_LoadReplacesOrFallsBack ==
    [][outcome'.op = "loadProducts" =>
          IF outcome'.result = "loaded"
          THEN /\ Len(products') = Cardinality(loadSnap.docs)
               /\ \A k \in 1..Len(products') :
                     \E d \in loadSnap.docs :
                        products'[k] = [id |-> d.id, name |-> d.name,
                                        price |-> d.price, docId |-> d.docId]
               /\ \A k \in 1..(Len(products') - 1) : products'[k].id <= products'[k + 1].id
          ELSE products' = PRODUCTS]_vars

====
